---- MODULE Spec2Model ----
(***************************************************************************)
(* Model of src/api/brain.py: the coordinate helpers, reconstruct_board,   *)
(* evaluate_board, minimax and the get_move request handler.               *)
(*                                                                         *)
(* Strings are sequences of character codes (ord/chr are then the          *)
(* identity on codes).  A Python call either returns a value or raises:    *)
(* an outcome is a record [exc |-> "none", val |-> v] or                   *)
(* [exc |-> <exception name>, val |-> <<>>].                               *)
(***************************************************************************)
EXTENDS Integers, Sequences, FiniteSets, TLC

VARIABLES
    mapDir, mapIn, mapMid, mapOut, mapPc,   \* coordinate helpers under test
    pieces_data,                            \* request.json['pieces']
    built,                                  \* outcome of reconstruct_board
    evBoard, evResult, evSwapResult,        \* evaluate_board under test
    script,                                 \* the rules engine's game tree
    mmCall, mmResult,                       \* a call of minimax and its outcome
    response, gmBoard                       \* get_move's response and its board

mapVars == <<mapDir, mapIn, mapMid, mapOut, mapPc>>

buildVars == <<pieces_data, built>>

evalVars == <<evBoard, evResult, evSwapResult>>

searchVars == <<script, mmCall, mmResult, response, gmBoard>>

vars == <<mapVars, buildVars, evalVars, searchVars>>

Ok(v) == [exc |-> "none", val |-> v]

\* Body(x) with x evaluated once: the result of a call bound to a local name.
Bind(x, Body(_)) == CHOOSE v \in {Body(y) : y \in {x}} : TRUE

Raise(e) == [exc |-> e, val |-> <<>>]

(***************************************************************************)
(* Each specification below exercises one part of the program; the         *)
(* variables of the other parts keep these values.                         *)
(***************************************************************************)

MapIdle ==
    /\ mapDir = "idle"
    /\ mapIn = <<>>
    /\ mapMid = Ok(<<>>)
    /\ mapOut = Ok(<<>>)
    /\ mapPc = "done"

NotBuilt == Raise("not called")

BuildIdle ==
    /\ pieces_data = <<>>
    /\ built = NotBuilt

NotEvaluated == Raise("not called")

EvalIdle ==
    /\ evBoard = <<>>
    /\ evResult = NotEvaluated
    /\ evSwapResult = NotEvaluated

NotCalled == Raise("not called")

SearchIdle ==
    /\ script = <<>>
    /\ mmCall = <<>>
    /\ mmResult = NotCalled
    /\ response = [error |-> "not called", from |-> <<>>, to |-> <<>>]
    /\ gmBoard = <<>>

(***************************************************************************)
(* Python string primitives used by the helpers.                           *)
(***************************************************************************)

\* str(n) for an integer n: decimal digits, '-' (45) for negatives; '0' is 48.
RECURSIVE StrNat(_)
StrNat(n) == IF n < 10 THEN <<48 + n>> ELSE StrNat(n \div 10) \o <<48 + (n % 10)>>

Str(n) == IF n < 0 THEN <<45>> \o StrNat(-n) ELSE StrNat(n)

IsDigit(c) == c >= 48 /\ c <= 57

RECURSIVE DigitsValue(_)
DigitsValue(s) ==
    IF s = <<>> THEN 0
    ELSE 10 * DigitsValue(SubSeq(s, 1, Len(s) - 1)) + (s[Len(s)] - 48)

\* int(s) on a str: the decimal value of a non-empty string of ASCII digits
\* with an optional sign ('+' is 43, '-' is 45), otherwise ValueError.  (The
\* blanks, underscores and non-ASCII digits Python also accepts are left out.)
ParseInt(s) ==
    LET signed == s # <<>> /\ s[1] \in {43, 45}
        digits == IF signed THEN Tail(s) ELSE s
    IN  IF digits # <<>> /\ \A i \in 1..Len(digits) : IsDigit(digits[i])
        THEN Ok(IF signed /\ s[1] = 45 THEN -DigitsValue(digits) ELSE DigitsValue(digits))
        ELSE Raise("ValueError")

\* s.split(sep) for a one-character separator: the list of the pieces.
RECURSIVE Split(_, _)
Split(s, sep) ==
    IF \A i \in 1..Len(s) : s[i] # sep THEN <<s>>
    ELSE LET k == CHOOSE i \in 1..Len(s) :
                      s[i] = sep /\ \A j \in 1..(i - 1) : s[j] # sep
         IN  <<SubSeq(s, 1, k - 1)>> \o Split(SubSeq(s, k + 1, Len(s)), sep)

(***************************************************************************)
(* Coordinate helpers.                                                     *)
(***************************************************************************)

\* x, y = map(int, pos.split('_')); col = chr(96 + x); return f"{col}{y}"
map_to_algebraic(pos) ==
    LET parts == Split(pos, 95)
        ints  == [i \in 1..Len(parts) |-> ParseInt(parts[i])]
    IN  IF \E i \in 1..Len(parts) : ints[i].exc # "none" THEN Raise("ValueError")
        ELSE IF Len(parts) # 2 THEN Raise("ValueError")
        ELSE LET x == ints[1].val
                 y == ints[2].val
                 col == <<96 + x>>
             IN  Ok(col \o Str(y))

\* map_from_algebraic with the file counted from 0 (ord(col_char) - 97).
map_from_algebraic_zero_based(square_name) ==
    IF Len(square_name) < 2 THEN Raise("IndexError")
    ELSE LET y == ParseInt(<<square_name[2]>>)
         IN  IF y.exc # "none" THEN y
             ELSE Ok(Str(square_name[1] - 97) \o <<95>> \o Str(y.val))

\* col_char = square_name[0]; row_char = square_name[1];
\* x = ord(col_char) - 96; y = int(row_char); return f"{x}_{y}"
map_from_algebraic(square_name) ==
    IF Len(square_name) < 2 THEN Raise("IndexError")
    ELSE LET col_char == square_name[1]
             row_char == <<square_name[2]>>
             x == col_char - 96
             y == ParseInt(row_char)
         IN  IF y.exc # "none" THEN y
             ELSE Ok(Str(x) \o <<95>> \o Str(y.val))

\* The request's name "f_r" of a square, and the engine's name of it.
PosString(f, r) == Str(f) \o <<95>> \o Str(r)

AlgString(f, r) == <<96 + f>> \o Str(r)

(***************************************************************************)
(* The rules engine's board (python-chess), as far as brain.py uses it.    *)
(* Squares are 0..63 (a1 = 0, b1 = 1, ..., h8 = 63); a bitboard is the set *)
(* of its squares; chess.WHITE is TRUE and chess.BLACK is FALSE.           *)
(***************************************************************************)

SQUARES == 0..63

WHITE == TRUE

BLACK == FALSE

None == [piece_type |-> "None", color |-> FALSE]

Piece(piece_type, color) == [piece_type |-> piece_type, color |-> color]

\* chess.parse_square(name): the index of name in SQUARE_NAMES, ValueError
\* when name is not one of a1..h8.
parse_square(name) ==
    IF /\ Len(name) = 2
       /\ name[1] >= 97 /\ name[1] <= 104
       /\ name[2] >= 49 /\ name[2] <= 56
    THEN Ok((name[2] - 49) * 8 + (name[1] - 97))
    ELSE Raise("ValueError")

\* chess.square_name(square)
square_name(square) == <<97 + (square % 8), 49 + (square \div 8)>>

\* chess.BB_A1, chess.BB_H1, chess.BB_A8, chess.BB_H8
BB_A1 == {0}

BB_H1 == {7}

BB_A8 == {56}

BB_H8 == {63}

\* chess.Board(None): no pieces; the turn of a new board is WHITE.  The field
\* pieces maps each occupied square to its piece.
EmptyBoard ==
    [pieces |-> <<>>,
     castling_rights |-> {},
     turn |-> WHITE,
     move_stack |-> <<>>,
     checkmate |-> FALSE]

\* board.is_checkmate(): the engine's classification of the position, which
\* the board carries in its field checkmate.
is_checkmate(board) == board.checkmate

\* board.piece_at(square)
piece_at(board, square) ==
    IF square \in DOMAIN board.pieces THEN board.pieces[square] ELSE None

\* board.set_piece_at(square, piece) on the pieces: the piece replaces whatever
\* stood on the square.
set_piece_at(pieces, square, piece) ==
    [sq \in DOMAIN pieces \cup {square} |-> IF sq = square THEN piece ELSE pieces[sq]]

(***************************************************************************)
(* String literals of the request: one-character strings to codes.         *)
(***************************************************************************)

Code ==
    [a |-> 97, b |-> 98, c |-> 99, d |-> 100, e |-> 101, f |-> 102, g |-> 103,
     h |-> 104, i |-> 105, j |-> 106, k |-> 107, l |-> 108, m |-> 109,
     n |-> 110, o |-> 111, p |-> 112, q |-> 113, r |-> 114, s |-> 115,
     t |-> 116, u |-> 117, v |-> 118, w |-> 119, x |-> 120, y |-> 121,
     z |-> 122]

Lit(chars) == [i \in 1..Len(chars) |-> IF chars[i] = "_" THEN 95 ELSE Code[chars[i]]]

(***************************************************************************)
(* reconstruct_board.  pieces_data is the JSON object as Python sees it: a *)
(* dict in insertion order, here the sequence of its items, each with its  *)
(* key and the fields type, position, captured, moved.                     *)
(***************************************************************************)

HasKey(data, key) == \E i \in 1..Len(data) : data[i].key = key

\* data[key] for a key that is present
Lookup(data, key) == data[CHOOSE i \in 1..Len(data) : data[i].key = key]

\* type_map of reconstruct_board
type_map(p_type) ==
    CASE p_type = Lit(<<"k", "i", "n", "g">>) -> Ok("KING")
      [] p_type = Lit(<<"q", "u", "e", "e", "n">>) -> Ok("QUEEN")
      [] p_type = Lit(<<"r", "o", "o", "k">>) -> Ok("ROOK")
      [] p_type = Lit(<<"b", "i", "s", "h", "o", "p">>) -> Ok("BISHOP")
      [] p_type = Lit(<<"k", "n", "i", "g", "h", "t">>) -> Ok("KNIGHT")
      [] p_type = Lit(<<"p", "a", "w", "n">>) -> Ok("PAWN")
      [] OTHER -> Raise("KeyError")

StartsWith(s, prefix) ==
    Len(s) >= Len(prefix) /\ SubSeq(s, 1, Len(prefix)) = prefix

\* One iteration of the loop of lines 33-42: the pieces after it, or the
\* exception it raises.  board.set_piece_at replaces whatever is on the square.
PlacePiece(pieces, piece) ==
    IF piece.captured THEN Ok(pieces)
    ELSE LET color == IF StartsWith(piece.type, Lit(<<"w", "_">>)) THEN WHITE ELSE BLACK
             parts == Split(piece.type, 95)
         IN  IF Len(parts) < 2 THEN Raise("IndexError")
             ELSE LET p_type  == parts[2]
                      alg_pos == map_to_algebraic(piece.position)
                  IN  IF alg_pos.exc # "none" THEN alg_pos
                      ELSE LET square == parse_square(alg_pos.val)
                           IN  IF square.exc # "none" THEN square
                               ELSE IF type_map(p_type).exc # "none" THEN type_map(p_type)
                               ELSE Ok(set_piece_at(pieces, square.val,
                                                    Piece(type_map(p_type).val, color)))

\* The loop of lines 33-42 from item i on.
RECURSIVE PlacePieces(_, _, _)
PlacePieces(data, i, pieces) ==
    IF i > Len(data) THEN Ok(pieces)
    ELSE LET r == PlacePiece(pieces, data[i])
         IN  IF r.exc # "none" THEN r ELSE PlacePieces(data, i + 1, r.val)

\* pieces_data[key]['moved'], KeyError when the key is absent
Moved(data, key) ==
    IF HasKey(data, key) THEN Ok(Lookup(data, key).moved) ELSE Raise("KeyError")

\* Lines 47-49 and 51-53 for one side: the rights the side adds, or KeyError.
\* The king-side rook is looked up first, and no rook is looked up when the
\* king has moved.
SideRights(data, king, rook2, bb2, rook1, bb1) ==
    LET k  == Moved(data, king)
        r2 == Moved(data, rook2)
        r1 == Moved(data, rook1)
    IN  IF k.exc # "none" THEN k
        ELSE IF k.val THEN Ok({})
        ELSE IF r2.exc # "none" THEN r2
        ELSE IF r1.exc # "none" THEN r1
        ELSE Ok((IF ~r2.val THEN bb2 ELSE {}) \cup (IF ~r1.val THEN bb1 ELSE {}))

\* The derivation with the two rooks of a side taken for one another.
CastlingRightsSwapped(data) ==
    LET white == SideRights(data, "w_king", "w_rook1", BB_H1, "w_rook2", BB_A1)
        black == SideRights(data, "b_king", "b_rook1", BB_H8, "b_rook2", BB_A8)
    IN  IF white.exc # "none" THEN white
        ELSE IF black.exc # "none" THEN black
        ELSE Ok(white.val \cup black.val)

\* Lines 45-53: board.castling_rights
CastlingRights(data) ==
    LET white == SideRights(data, "w_king", "w_rook2", BB_H1, "w_rook1", BB_A1)
        black == SideRights(data, "b_king", "b_rook2", BB_H8, "b_rook1", BB_A8)
    IN  IF white.exc # "none" THEN white
        ELSE IF black.exc # "none" THEN black
        ELSE Ok(white.val \cup black.val)

reconstruct_board(data) ==
    LET placed == PlacePieces(data, 1, EmptyBoard.pieces)
        rights == CastlingRights(data)
    IN  IF placed.exc # "none" THEN placed
        ELSE IF rights.exc # "none" THEN rights
        ELSE Ok([EmptyBoard EXCEPT !.pieces = placed.val,
                                   !.castling_rights = rights.val,
                                   !.turn = BLACK])

(***************************************************************************)
(* The inventories the build is checked on: the six records the castling   *)
(* derivation names and a black queen, each absent or present; a rook or   *)
(* the queen may stand on its home square or on the shared square d4.      *)
(***************************************************************************)

Record(key, type, position, captured, moved) ==
    [key |-> key, type |-> Lit(type), position |-> position,
     captured |-> captured, moved |-> moved]

Shared == PosString(4, 4)

KingOptions(key, type, f, r) ==
    {<<>>} \cup {<<Record(key, type, PosString(f, r), FALSE, mv)>> : mv \in BOOLEAN}

RookOptions(key, type, f, r) ==
    {<<>>}
    \cup {<<Record(key, type, PosString(f, r), FALSE, mv)>> : mv \in BOOLEAN}
    \cup {<<Record(key, type, Shared, FALSE, TRUE)>>}
    \cup {<<Record(key, type, Shared, TRUE, mv)>> : mv \in BOOLEAN}

QueenOptions(key, type, f, r) ==
    {<<>>}
    \cup {<<Record(key, type, pos, cap, TRUE)>> :
             pos \in {PosString(f, r), Shared}, cap \in BOOLEAN}

WK == <<"w", "_", "k", "i", "n", "g">>

WR == <<"w", "_", "r", "o", "o", "k">>

BK == <<"b", "_", "k", "i", "n", "g">>

BR == <<"b", "_", "r", "o", "o", "k">>

BQ == <<"b", "_", "q", "u", "e", "e", "n">>

BuildInit ==
    /\ MapIdle
    /\ EvalIdle
    /\ SearchIdle
    /\ \E wk  \in KingOptions("w_king", WK, 5, 1),
          wr1 \in RookOptions("w_rook1", WR, 1, 1),
          wr2 \in RookOptions("w_rook2", WR, 8, 1),
          bk  \in KingOptions("b_king", BK, 5, 8),
          br1 \in RookOptions("b_rook1", BR, 1, 8),
          br2 \in RookOptions("b_rook2", BR, 8, 8),
          bq  \in QueenOptions("b_queen", BQ, 4, 8) :
          pieces_data = wk \o wr1 \o wr2 \o bk \o br1 \o br2 \o bq
    /\ built = NotBuilt

CallReconstructBoard ==
    /\ built = NotBuilt
    /\ built' = reconstruct_board(pieces_data)
    /\ UNCHANGED <<pieces_data, mapVars, evalVars, searchVars>>

BuildNext == CallReconstructBoard

SpecBuild == BuildInit /\ [][BuildNext]_vars

(***************************************************************************)
(* evaluate_board.                                                         *)
(***************************************************************************)

\* values of evaluate_board
values(piece_type) ==
    CASE piece_type = "PAWN" -> 1
      [] piece_type = "KNIGHT" -> 3
      [] piece_type = "BISHOP" -> 3
      [] piece_type = "ROOK" -> 5
      [] piece_type = "QUEEN" -> 9
      [] piece_type = "KING" -> 0

\* The iteration with the colours taken for one another.
AddSquareWhitePositive(board, square, evaluation) ==
    LET piece == piece_at(board, square)
    IN  IF piece = None THEN evaluation
        ELSE LET val == values(piece.piece_type)
             IN  IF piece.color = WHITE THEN evaluation + val ELSE evaluation - val

\* One iteration of the loop of lines 68-73: the evaluation after it.
AddSquare(board, square, evaluation) ==
    LET piece == piece_at(board, square)
    IN  IF piece = None THEN evaluation
        ELSE LET val == values(piece.piece_type)
             IN  IF piece.color = WHITE THEN evaluation - val ELSE evaluation + val

\* The iterations of the loop of lines 68-73 for the squares lo..hi in
\* ascending order: those of the lower half, then those of the upper half.
RECURSIVE SumSquares(_, _, _, _)
SumSquares(board, lo, hi, evaluation) ==
    IF lo = hi THEN AddSquare(board, lo, evaluation)
    ELSE Bind(SumSquares(board, lo, (lo + hi) \div 2, evaluation),
              LAMBDA half : SumSquares(board, (lo + hi) \div 2 + 1, hi, half))

\* Lines 61-63: the value returned for a checkmate.
MateScore(board) == IF board.turn THEN -9999 ELSE 9999

evaluate_board(board) ==
    IF is_checkmate(board) THEN MateScore(board)
    ELSE SumSquares(board, 0, 63, 0)

(***************************************************************************)
(* Specification of the evaluator: a position with any pieces on three     *)
(* squares, either side to move, checkmate or not, is evaluated as it is   *)
(* and with the colour of every piece swapped.                             *)
(***************************************************************************)

PieceTypes == {"PAWN", "KNIGHT", "BISHOP", "ROOK", "QUEEN", "KING"}

Occupants == {None} \cup {Piece(t, c) : t \in PieceTypes, c \in BOOLEAN}

SampleSquares == {0, 28, 63}

SwapPiece(piece) ==
    IF piece = None THEN None ELSE Piece(piece.piece_type, ~piece.color)

SwapColors(board) ==
    [board EXCEPT !.pieces = [sq \in DOMAIN board.pieces |-> SwapPiece(board.pieces[sq])]]

EvalInit ==
    /\ MapIdle
    /\ BuildIdle
    /\ SearchIdle
    /\ \E occ \in [SampleSquares -> Occupants], turn \in BOOLEAN, mate \in BOOLEAN :
          evBoard = [EmptyBoard EXCEPT
                        !.pieces = [sq \in {q \in SampleSquares : occ[q] # None} |->
                                       occ[sq]],
                        !.turn = turn,
                        !.checkmate = mate]
    /\ evResult = NotEvaluated
    /\ evSwapResult = NotEvaluated

CallEvaluateBoard ==
    /\ evBoard # <<>>
    /\ evResult = NotEvaluated
    /\ evResult' = Ok(evaluate_board(evBoard))
    /\ UNCHANGED <<evBoard, evSwapResult, mapVars, buildVars, searchVars>>

CallEvaluateSwapped ==
    /\ evBoard # <<>>
    /\ evSwapResult = NotEvaluated
    /\ evSwapResult' = Ok(evaluate_board(SwapColors(evBoard)))
    /\ UNCHANGED <<evBoard, evResult, mapVars, buildVars, searchVars>>

EvalNext == CallEvaluateBoard \/ CallEvaluateSwapped

SpecEval == EvalInit /\ [][EvalNext]_vars

(***************************************************************************)
(* The rules engine's move tree.  brain.py takes the legal moves, the      *)
(* terminal status and, through evaluate_board, the score of a position    *)
(* from python-chess; here they are scripted: script is the tree of the    *)
(* positions reachable from the built one, and a node gives                *)
(*   kids   the positions after each legal move, in enumeration order,     *)
(*   over   board.is_game_over(),                                          *)
(*   score  the value evaluate_board returns for the position,             *)
(*   raises whether the engine raises when the position's status is asked. *)
(* The position of a board is the node its move stack leads to.            *)
(***************************************************************************)

\* The i-th move of an enumeration: from the i-th square of rank 7 one step
\* down the file.
ScriptMove(i) == [from_square |-> 47 + i, to_square |-> 39 + i]

IndexOfMove(move) == move.from_square - 47

RECURSIVE NodeUnder(_, _)
NodeUnder(node, stack) ==
    IF stack = <<>> THEN node
    ELSE NodeUnder(node.kids[IndexOfMove(Head(stack))], Tail(stack))

NodeAt(board) == NodeUnder(script, board.move_stack)

\* list(board.legal_moves)
legal_moves(board) == [i \in 1..Len(NodeAt(board).kids) |-> ScriptMove(i)]

\* board.is_game_over()
is_game_over(board) == NodeAt(board).over

\* board.push(move)
push(board, move) ==
    [board EXCEPT !.move_stack = Append(@, move), !.turn = ~@]

\* board.pop()
pop(board) ==
    [board EXCEPT !.move_stack = SubSeq(@, 1, Len(@) - 1), !.turn = ~@]

\* evaluate_board(board) on a position of the script
ScriptedEvaluation(board) == NodeAt(board).score

(***************************************************************************)
(* math.inf: a value is <<-1, 0>> (-inf), <<0, n>> (the integer n) or      *)
(* <<1, 0>> (+inf).                                                        *)
(***************************************************************************)

NegInf == <<-1, 0>>

PosInf == <<1, 0>>

Fin(n) == <<0, n>>

Le(a, b) == a[1] < b[1] \/ (a[1] = b[1] /\ a[2] <= b[2])

Gt(a, b) == ~Le(a, b)

\* max(a, b) and min(a, b)
PyMax(a, b) == IF Gt(b, a) THEN b ELSE a

PyMin(a, b) == IF Gt(a, b) THEN b ELSE a

(***************************************************************************)
(* minimax.  The outcome of a call is [exc, val, board]: the exception it  *)
(* raised or "none", the value it returned, and the board as the call left *)
(* it.                                                                     *)
(***************************************************************************)

Returned(val, board) == [exc |-> "none", val |-> val, board |-> board]

Raised(exc, board) == [exc |-> exc, val |-> <<>>, board |-> board]

\* The cutoff taken one point too early (beta <= alpha + 1).
CutoffEarly(alpha, beta) ==
    Le(beta, alpha) \/ (alpha[1] = 0 /\ beta[1] = 0 /\ beta[2] <= alpha[2] + 1)

\* Lines 89 and 99: if beta <= alpha: break
Cutoff(alpha, beta) == Le(beta, alpha)

RECURSIVE minimax(_, _, _, _, _), MaxLoop(_, _, _, _, _, _, _), MinLoop(_, _, _, _, _, _, _)
minimax(board, depth, alpha, beta, maximizing) ==
    IF NodeAt(board).raises THEN Raised("RulesEngineError", board)
    ELSE IF depth = 0 \/ is_game_over(board)
    THEN Returned(Fin(ScriptedEvaluation(board)), board)
    ELSE LET moves == legal_moves(board)
         IN  IF maximizing
             THEN MaxLoop(board, depth, alpha, beta, moves, 1, NegInf)
             ELSE MinLoop(board, depth, alpha, beta, moves, 1, PosInf)

\* The loop of lines 83-89 from move i on.  A call that raises leaves the
\* loop before board.pop().
MaxLoop(board, depth, alpha, beta, moves, i, max_eval) ==
    IF i > Len(moves) THEN Returned(max_eval, board)
    ELSE Bind(minimax(push(board, moves[i]), depth - 1, alpha, beta, FALSE),
              LAMBDA r :
                 IF r.exc # "none" THEN r
                 ELSE LET popped    == pop(r.board)
                          new_max   == PyMax(max_eval, r.val)
                          new_alpha == PyMax(alpha, r.val)
                      IN  IF Cutoff(new_alpha, beta) THEN Returned(new_max, popped)
                          ELSE MaxLoop(popped, depth, new_alpha, beta, moves, i + 1,
                                       new_max))

\* The loop of lines 93-99 from move i on.
MinLoop(board, depth, alpha, beta, moves, i, min_eval) ==
    IF i > Len(moves) THEN Returned(min_eval, board)
    ELSE Bind(minimax(push(board, moves[i]), depth - 1, alpha, beta, TRUE),
              LAMBDA r :
                 IF r.exc # "none" THEN r
                 ELSE LET popped   == pop(r.board)
                          new_min  == PyMin(min_eval, r.val)
                          new_beta == PyMin(beta, r.val)
                      IN  IF Cutoff(alpha, new_beta) THEN Returned(new_min, popped)
                          ELSE MinLoop(popped, depth, alpha, new_beta, moves, i + 1,
                                       new_min))

(***************************************************************************)
(* get_move.                                                               *)
(***************************************************************************)

\* The depth of the minimax call of line 115
RootDepth == 2

NoMove == [from_square |-> -1, to_square |-> -1]

\* The truth value of best_move: None is false, and so is the null move of
\* python-chess (from a1 to a1).
Truthy(move) == move # NoMove /\ (move.from_square # 0 \/ move.to_square # 0)

\* best_value starting at 0 instead of -inf.
InitialBestValueZero == Fin(0)

\* Line 111
InitialBestValue == NegInf

\* The comparison taken as val >= best_value.
BetterOrEqual(val, best_value) == Le(best_value, val)

\* Line 117: if val > best_value
Better(val, best_value) == Gt(val, best_value)

\* The loop of lines 113-119 from move i on: [exc, best_move, board].
RECURSIVE RootLoop(_, _, _, _, _)
RootLoop(board, moves, i, best_move, best_value) ==
    IF i > Len(moves) THEN [exc |-> "none", best_move |-> best_move, board |-> board]
    ELSE Bind(minimax(push(board, moves[i]), RootDepth, NegInf, PosInf, FALSE),
              LAMBDA r :
                 IF r.exc # "none"
                 THEN [exc |-> r.exc, best_move |-> best_move, board |-> r.board]
                 ELSE LET popped == pop(r.board)
                          better == Better(r.val, best_value)
                      IN  RootLoop(popped, moves, i + 1,
                                   IF better THEN moves[i] ELSE best_move,
                                   IF better THEN r.val ELSE best_value))

\* jsonify({"from": src, "to": dst}) and jsonify({"error": message})
MoveResponse(src, dst) == [error |-> "none", from |-> src, to |-> dst]

ErrorResponse(message) == [error |-> message, from |-> <<>>, to |-> <<>>]

\* Lines 121-126
Answer(best_move) ==
    IF Truthy(best_move)
    THEN LET src == map_from_algebraic(square_name(best_move.from_square))
             dst == map_from_algebraic(square_name(best_move.to_square))
         IN  IF src.exc # "none" THEN ErrorResponse(src.exc)
             ELSE IF dst.exc # "none" THEN ErrorResponse(dst.exc)
             ELSE MoveResponse(src.val, dst.val)
    ELSE ErrorResponse("Game Over or No Move")

\* The handler: its response, and its local board when it returned (<<>> when
\* no board was built).
get_move(data) ==
    Bind(reconstruct_board(data),
         LAMBDA made :
            IF made.exc # "none"
            THEN [response |-> ErrorResponse(made.exc), board |-> <<>>]
            ELSE Bind(RootLoop(made.val, legal_moves(made.val), 1,
                               NoMove, InitialBestValue),
                      LAMBDA found :
                         IF found.exc # "none"
                         THEN [response |-> ErrorResponse(found.exc),
                               board |-> found.board]
                         ELSE [response |-> Answer(found.best_move),
                               board |-> found.board]))

(***************************************************************************)
(* Specification of the search: every move tree of at most MaxLeaves       *)
(* leaves and RootDepth + 1 plies, with leaf scores in Scores, is searched *)
(* by get_move or by one call of minimax with the full window.             *)
(***************************************************************************)

MaxLeaves == 3

Scores == {-1, 0, 1}

\* The last ply a search from the root reaches.
Horizon == RootDepth + 1

(***************************************************************************)
(* A tree is given by its leaves from left to right: shape.dep[i] is the   *)
(* depth of leaf i, shape.lca[i] the depth of the deepest position that    *)
(* leaf i and leaf i + 1 both descend from, shape.score[i] the score of    *)
(* leaf i.  shape.fault names the position that raises, as the ancestor at *)
(* depth fault.depth of leaf fault.leaf (leaf 0: no position raises).      *)
(* A leaf above the horizon is a position that is over.                    *)
(***************************************************************************)

ValidShape(n, dep, lca) ==
    \A i \in 1..(n - 1) : lca[i] < dep[i] /\ lca[i] < dep[i + 1]

RECURSIVE NodeOf(_, _, _, _), KidsOf(_, _, _, _)
NodeOf(shape, depth, lo, hi) ==
    [kids   |-> IF lo = hi /\ shape.dep[lo] = depth THEN <<>>
                ELSE KidsOf(shape, depth, lo, hi),
     over   |-> lo = hi /\ shape.dep[lo] = depth /\ depth < Horizon,
     score  |-> IF lo = hi /\ shape.dep[lo] = depth THEN shape.score[lo] ELSE 0,
     raises |-> shape.fault.depth = depth /\ shape.fault.leaf \in lo..hi]

\* The positions below the one at depth that spans the leaves lo..hi and more:
\* one for each run of leaves that part below depth.
KidsOf(shape, depth, lo, hi) ==
    IF lo > hi THEN <<>>
    ELSE LET end == CHOOSE e \in lo..hi :
                        /\ e = hi \/ shape.lca[e] = depth
                        /\ \A j \in lo..(e - 1) : shape.lca[j] # depth
         IN  <<NodeOf(shape, depth + 1, lo, end)>> \o KidsOf(shape, depth, end + 1, hi)

NoFault == [leaf |-> 0, depth |-> 0]

\* script is a tree of at most MaxLeaves leaves in which no position raises
\* (faults = FALSE) or exactly one position other than the root does.
ScriptIs(faults) ==
    \E n \in 1..MaxLeaves :
        \E dep \in [1..n -> 0..Horizon], lca \in [1..(n - 1) -> 0..(Horizon - 1)] :
            /\ ValidShape(n, dep, lca)
            /\ \E score \in [1..n -> Scores] :
                  \E fault \in IF faults
                               THEN {[leaf |-> i, depth |-> d] :
                                        i \in 1..n, d \in 1..Horizon}
                               ELSE {NoFault} :
                      /\ IF fault.leaf = 0 THEN TRUE
                         ELSE fault.depth <= dep[fault.leaf]
                      /\ script = NodeOf([dep |-> dep, lca |-> lca, score |-> score,
                                          fault |-> fault], 0, 1, n)

\* The inventory of the search: kings, rooks and the black queen at home.
StandardInventory ==
    <<Record("w_king", WK, PosString(5, 1), FALSE, FALSE),
      Record("w_rook1", WR, PosString(1, 1), FALSE, TRUE),
      Record("w_rook2", WR, PosString(8, 1), FALSE, FALSE),
      Record("b_king", BK, PosString(5, 8), FALSE, FALSE),
      Record("b_rook1", BR, PosString(1, 8), FALSE, FALSE),
      Record("b_rook2", BR, PosString(8, 8), FALSE, TRUE),
      Record("b_queen", BQ, PosString(4, 8), FALSE, FALSE)>>

NoResponse == ErrorResponse("not called")

\* The board of a direct call of minimax: the root of the script.
RootBoard == [EmptyBoard EXCEPT !.turn = BLACK]

SearchStart ==
    /\ MapIdle
    /\ EvalIdle
    /\ pieces_data = StandardInventory
    /\ built = NotBuilt
    /\ mmCall = <<>>
    /\ mmResult = NotCalled
    /\ response = NoResponse
    /\ gmBoard = <<>>

SearchInit ==
    /\ SearchStart
    /\ ScriptIs(FALSE)

FaultInit ==
    /\ SearchStart
    /\ ScriptIs(TRUE)

Fresh == mmResult = NotCalled /\ response = NoResponse /\ script # <<>>

GetMove ==
    /\ Fresh
    /\ \E out \in {get_move(pieces_data)} :
          response' = out.response /\ gmBoard' = out.board
    /\ UNCHANGED <<script, mmCall, mmResult, mapVars, buildVars, evalVars>>

CallMinimax ==
    /\ Fresh
    /\ \E depth \in 0..(RootDepth + 1), maximizing \in BOOLEAN :
          /\ mmCall' = [depth |-> depth, maximizing |-> maximizing]
          /\ mmResult' = minimax(RootBoard, depth, NegInf, PosInf, maximizing)
    /\ UNCHANGED <<script, response, gmBoard, mapVars, buildVars, evalVars>>

SearchNext == GetMove \/ CallMinimax

Spec == SearchInit /\ [][SearchNext]_vars

SpecFault == FaultInit /\ [][SearchNext]_vars

(***************************************************************************)
(* Specification of the coordinate helpers: an input string is mapped one  *)
(* way and the result is mapped back.                                      *)
(***************************************************************************)

MaxCoord == 11

Coords == 0..MaxCoord

BoardRange == 1..8

MapInit ==
    /\ BuildIdle
    /\ EvalIdle
    /\ SearchIdle
    /\ mapDir \in {"to_from", "from_to"}
    /\ \E f \in Coords, r \in Coords :
          mapIn = IF mapDir = "to_from" THEN PosString(f, r) ELSE AlgString(f, r)
    /\ mapMid = Ok(<<>>)
    /\ mapOut = Ok(<<>>)
    /\ mapPc = "start"

MapCurrent == IF mapPc = "start" THEN Ok(mapIn) ELSE mapMid

MapNextFn ==
    IF mapPc = "done" \/ MapCurrent.exc # "none" THEN "none"
    ELSE IF (mapDir = "to_from") = (mapPc = "start") THEN "to" ELSE "from"

MapStore(r) ==
    /\ IF mapPc = "start"
       THEN mapMid' = r /\ mapPc' = "mid" /\ UNCHANGED mapOut
       ELSE mapOut' = r /\ mapPc' = "done" /\ UNCHANGED mapMid
    /\ UNCHANGED <<mapDir, mapIn, buildVars, evalVars, searchVars>>

CallMapToAlgebraic ==
    /\ MapNextFn = "to"
    /\ MapStore(map_to_algebraic(MapCurrent.val))

CallMapFromAlgebraic ==
    /\ MapNextFn = "from"
    /\ MapStore(map_from_algebraic(MapCurrent.val))

MapNext == CallMapToAlgebraic \/ CallMapFromAlgebraic

SpecMap == MapInit /\ [][MapNext]_vars

(***************************************************************************)
(* The properties.                                                         *)
(***************************************************************************)

\* Minimax over the tree of a position with no pruning: the value of a
\* position is its score at depth 0 or when it is over, otherwise the greatest
\* (maximizing) or least value of the positions after its moves.
RECURSIVE PlainMinimax(_, _, _)
PlainMinimax(node, depth, maximizing) ==
    IF depth = 0 \/ node.over THEN Fin(node.score)
    ELSE LET vals == {PlainMinimax(node.kids[i], depth - 1, ~maximizing) :
                         i \in 1..Len(node.kids)}
         IN  IF vals = {} THEN (IF maximizing THEN NegInf ELSE PosInf)
             ELSE IF maximizing THEN CHOOSE v \in vals : \A w \in vals : Le(w, v)
             ELSE CHOOSE v \in vals : \A w \in vals : Le(v, w)

\* C1: a call minimax(board, depth, -inf, +inf, maximizing) that returns,
\* returns the value of the unpruned minimax of the same tree, for every depth
\* and for maximizing TRUE and FALSE.
AlphaBetaEqualsPlainMinimax ==
    mmResult.exc = "none" =>
        mmResult.val = PlainMinimax(script, mmCall.depth, mmCall.maximizing)

\* A maximizing call of depth 2 whose second move is cut off: the first move
\* is worth 0, and the first reply to the second move is worth -1, so the
\* second reply (worth 1) is not searched.
AlphaBetaCutoffTaken ==
    /\ mmResult.exc = "none"
    /\ mmCall = [depth |-> 2, maximizing |-> TRUE]
    /\ Len(script.kids) = 2
    /\ script.kids[1].kids = <<>> /\ script.kids[1].score = 0
    /\ Len(script.kids[2].kids) = 2
    /\ script.kids[2].kids[1].score = -1
    /\ script.kids[2].kids[2].score = 1
    /\ mmResult.val = Fin(0)

\* C2 (as claimed): for a checkmate evaluate_board returns 9999 when White is
\* to move (Black has won) and -9999 when Black is to move.
MateScoreFavoursSideNotToMove ==
    (evResult.exc = "none" /\ evBoard.checkmate) =>
        evResult.val = (IF evBoard.turn = WHITE THEN 9999 ELSE -9999)

\* The response for the i-th move of the root's enumeration (from the i-th
\* square of rank 7 to the square below it).
ResponseForMove(i) == MoveResponse(PosString(i, 7), PosString(i, 6))

\* C3: get_move on a built position with no legal move answers with the
\* error and no move; with exactly one legal move it answers with that move.
NoMoveOrTheOnlyMove ==
    response # NoResponse =>
        /\ Len(script.kids) = 0 =>
              response = ErrorResponse("Game Over or No Move")
        /\ Len(script.kids) = 1 => response = ResponseForMove(1)

\* get_move has returned the only legal move, whose 2-ply value is negative.
OnlyMoveWithNegativeValue ==
    /\ response = ResponseForMove(1)
    /\ Len(script.kids) = 1
    /\ PlainMinimax(script.kids[1], RootDepth, FALSE) = Fin(-1)

\* The record of key in data is present and has moved = false.
Unmoved(data, key) ==
    \E i \in 1..Len(data) : data[i].key = key /\ ~data[i].moved

\* C4: in the built position each castling right is there exactly when the
\* side's king record and the rook record of that wing both have moved =
\* false; when the white king and w_rook2 (the h1 rook) are the only unmoved
\* records, the rights are exactly the white king-side one.
CastlingRightsDerived ==
    built.exc = "none" =>
        LET rights == built.val.castling_rights
        IN  /\ (7 \in rights) <=>
                  (Unmoved(pieces_data, "w_king") /\ Unmoved(pieces_data, "w_rook2"))
            /\ (0 \in rights) <=>
                  (Unmoved(pieces_data, "w_king") /\ Unmoved(pieces_data, "w_rook1"))
            /\ (63 \in rights) <=>
                  (Unmoved(pieces_data, "b_king") /\ Unmoved(pieces_data, "b_rook2"))
            /\ (56 \in rights) <=>
                  (Unmoved(pieces_data, "b_king") /\ Unmoved(pieces_data, "b_rook1"))
            /\ rights \subseteq {0, 7, 56, 63}
            /\ (\A i \in 1..Len(pieces_data) :
                   pieces_data[i].moved <=> pieces_data[i].key \notin {"w_king", "w_rook2"})
               => rights = {7}

\* A position built from all seven records, of which only the white king and
\* the h1 rook are unmoved.
OnlyWhiteKingSideUnmoved ==
    /\ built.exc = "none"
    /\ Len(pieces_data) = 7
    /\ \A i \in 1..Len(pieces_data) :
          pieces_data[i].moved <=> pieces_data[i].key \notin {"w_king", "w_rook2"}
    /\ built.val.castling_rights = {7}

CastlingKeys == {"w_king", "w_rook1", "w_rook2", "b_king", "b_rook1", "b_rook2"}

\* C5 (as claimed): when a king or rook record named by the castling
\* derivation is absent, reconstruct_board still returns a position.
MissingRecordStillBuilds ==
    (built # NotBuilt /\ \E k \in CastlingKeys : ~HasKey(pieces_data, k)) =>
        built.exc = "none"

\* Two records of data that are not captured stand on the same square.
DuplicateOccupant(data) ==
    \E i, j \in 1..Len(data) :
        /\ i # j
        /\ ~data[i].captured /\ ~data[j].captured
        /\ data[i].position = data[j].position

\* C6 (as claimed): when two records that are not captured map to the same
\* square, reconstruct_board fails and returns no position.
DuplicateOccupantRejected ==
    (built # NotBuilt /\ DuplicateOccupant(pieces_data)) => built.exc # "none"

\* C7: mapping the name "f_r" of a square of the board to algebraic and back
\* gives "f_r" again, and mapping an algebraic name a1..h8 to "f_r" and back
\* gives the algebraic name again.
CoordinateRoundTrip ==
    /\ (mapPc = "done" /\ mapDir = "to_from"
           /\ mapIn \in {PosString(f, r) : f \in BoardRange, r \in BoardRange})
       => mapOut = Ok(mapIn)
    /\ (mapPc = "done" /\ mapDir = "from_to"
           /\ mapIn \in {AlgString(f, r) : f \in BoardRange, r \in BoardRange})
       => mapOut = Ok(mapIn)

\* "8_8" has been mapped to "h8" and back.
CornerRoundTripDone ==
    /\ mapPc = "done"
    /\ mapDir = "to_from"
    /\ mapIn = PosString(8, 8)
    /\ mapMid = Ok(AlgString(8, 8))

\* The number of pieces of a type and colour on the board.
Count(board, piece_type, color) ==
    Cardinality({sq \in DOMAIN board.pieces : board.pieces[sq] = Piece(piece_type, color)})

\* Black's pieces minus White's, a pawn counting 1, knight 3, bishop 3,
\* rook 5, queen 9, king 0.
Material(board) ==
      1 * (Count(board, "PAWN", BLACK) - Count(board, "PAWN", WHITE))
    + 3 * (Count(board, "KNIGHT", BLACK) - Count(board, "KNIGHT", WHITE))
    + 3 * (Count(board, "BISHOP", BLACK) - Count(board, "BISHOP", WHITE))
    + 5 * (Count(board, "ROOK", BLACK) - Count(board, "ROOK", WHITE))
    + 9 * (Count(board, "QUEEN", BLACK) - Count(board, "QUEEN", WHITE))
    + 0 * (Count(board, "KING", BLACK) - Count(board, "KING", WHITE))

\* C8: for a position that is not checkmate evaluate_board returns Black's
\* material minus White's, and the score of the position with every piece's
\* colour swapped is the negated score.
MaterialScoreAndSymmetry ==
    /\ (evResult.exc = "none" /\ ~evBoard.checkmate)
       => evResult.val = Material(evBoard)
    /\ (evResult.exc = "none" /\ evSwapResult.exc = "none" /\ ~evBoard.checkmate)
       => evSwapResult.val = -evResult.val

\* A position with a king on the board, not checkmate, has been evaluated as
\* it is and swapped, and its score is not 0.
UnbalancedPositionEvaluated ==
    /\ evResult.exc = "none"
    /\ evSwapResult.exc = "none"
    /\ ~evBoard.checkmate
    /\ evResult.val > 0
    /\ \E sq \in DOMAIN evBoard.pieces : evBoard.pieces[sq].piece_type = "KING"

\* The 2-ply value of the i-th root move, the opponent minimizing.
RootValue(i) == PlainMinimax(script.kids[i], RootDepth, FALSE)

\* C9: when the root has legal moves get_move answers with one of them; none
\* has a greater 2-ply value, and none before it in the enumeration has an
\* equal one.
FirstMaximalRootMove ==
    (response # NoResponse /\ Len(script.kids) > 0) =>
        \E i \in 1..Len(script.kids) :
            /\ response = ResponseForMove(i)
            /\ \A j \in 1..Len(script.kids) : Le(RootValue(j), RootValue(i))
            /\ \A j \in 1..(i - 1) : RootValue(j) # RootValue(i)

\* get_move has answered with the second of three moves: the first is worth
\* less and the third as much.
SecondOfThreeChosen ==
    /\ response = ResponseForMove(2)
    /\ Len(script.kids) = 3
    /\ Gt(RootValue(2), RootValue(1))
    /\ RootValue(3) = RootValue(2)

\* C10 (as claimed): when a search ends, or aborts because a recursive call
\* failed, every move applied has been undone: the board is the position the
\* search began with.
BoardRestoredAfterSearch ==
    /\ mmResult # NotCalled => mmResult.board = RootBoard
    /\ (response # NoResponse /\ gmBoard # <<>>) => gmBoard.move_stack = <<>>

====
